---- MODULE Spec2Model ----
(***************************************************************************)
(* A model of EventBus (include/EventBus.h, src/EventBus.cpp): the         *)
(* subscription registry, the topic matcher, the synchronous post path    *)
(* and the queue-and-worker path, with the caller threads and the          *)
(* dispatcher thread interleaved at the granularity of their accesses to   *)
(* shared state.                                                           *)
(***************************************************************************)
EXTENDS Integers, Sequences, FiniteSets, TLC

(***************************************************************************)
(* Bounds of the model.                                                    *)
(***************************************************************************)
MaxSubs == 3
MaxAsync == 2
SpecAsync == 1
LifecycleSubs == 1
MaxLen == 3
MaxStarts == 2

(***************************************************************************)
(* Strings are sequences of characters; CharCode gives the character       *)
(* order that std::string::compare uses.                                   *)
(***************************************************************************)
Chars == {"a", "b", "*"}

CharCode(c) == IF c = "*" THEN 42 ELSE IF c = "a" THEN 97 ELSE 98

RECURSIVE StringsOfLen(_)
StringsOfLen(n) ==
    IF n = 0 THEN {<<>>}
    ELSE {Append(s, c) : s \in StringsOfLen(n - 1), c \in Chars}

Strings == UNION {StringsOfLen(n) : n \in 0..MaxLen}

Min(a, b) == IF a < b THEN a ELSE b

\* size_t arithmetic of pattern.length()-1: 0 - 1 wraps to the largest
\* size_t, which is above the length of every string; NPos stands for it.
NPos == MaxLen + 100

SizeMinusOne(n) == IF n = 0 THEN NPos ELSE n - 1

\* char_traits::compare on two character ranges of the same length
RECURSIVE TraitsCompare(_, _)
TraitsCompare(s, t) ==
    IF s = <<>> THEN 0
    ELSE IF CharCode(Head(s)) < CharCode(Head(t)) THEN -1
    ELSE IF CharCode(Head(s)) > CharCode(Head(t)) THEN 1
    ELSE TraitsCompare(Tail(s), Tail(t))

\* a comparison of the common part alone
StringCompareCommon(self, n1, str, n2) ==
    LET rlen == Min(Min(n1, Len(self)), Min(n2, Len(str)))
    IN  TraitsCompare(SubSeq(self, 1, rlen), SubSeq(str, 1, rlen))

\* std::string::compare(pos1, n1, str, pos2, n2) with pos1 = pos2 = 0:
\* both counts are clamped to the strings' sizes, the common part is
\* compared, and a tie is broken by the clamped lengths.
StringCompare(self, n1, str, n2) ==
    LET rlen1 == Min(n1, Len(self))
        rlen2 == Min(n2, Len(str))
        rlen == Min(rlen1, rlen2)
        r == TraitsCompare(SubSeq(self, 1, rlen), SubSeq(str, 1, rlen))
    IN  IF r # 0 THEN r
        ELSE IF rlen1 < rlen2 THEN -1
        ELSE IF rlen1 > rlen2 THEN 1
        ELSE 0

\* pattern.back(): the last character; on an empty string the read is
\* undefined and may produce any character.
Back(s) == IF Len(s) > 0 THEN {s[Len(s)]} ELSE Chars

\* isTopicMatch with the character that pattern.back() produced
isTopicMatchWith(pattern, topic, back) ==
    IF pattern = <<"*">> THEN TRUE
    ELSE IF back = "*"
            /\ StringCompare(topic, SizeMinusOne(Len(pattern)),
                             pattern, SizeMinusOne(Len(pattern))) = 0
         THEN TRUE
    ELSE pattern = topic

\* the values a call isTopicMatch(pattern, topic) can return
isTopicMatchResults(pattern, topic) ==
    {isTopicMatchWith(pattern, topic, b) : b \in Back(pattern)}

\* how a call isTopicMatch(pattern, topic) can end: with one of the values
\* above, or, when pattern.back() reads an empty string, with the process
\* stopped at the undefined read (an assertion of a checked library, a
\* fault).
isTopicMatchOutcomes(pattern, topic) ==
    {IF r THEN "true" ELSE "false" : r \in isTopicMatchResults(pattern, topic)}
    \cup (IF Len(pattern) = 0 THEN {"abort"} ELSE {})

\* isTopicMatch on a non-empty pattern, where the result is unique
isTopicMatch(pattern, topic) == TRUE \in isTopicMatchResults(pattern, topic)

(***************************************************************************)
(* The inputs of the bus model: the caller threads, the topic and the      *)
(* payload type that messages are published with, and the subscribe calls  *)
(* made: a handler for the published type on a matching pattern at either  *)
(* priority, a handler for another type, and a handler on a pattern that   *)
(* does not match.                                                         *)
(***************************************************************************)
Threads == {"t1", "t2"}
Topics == {<<"a", "b">>}
MsgTypes == {"TradeEvent"}

SubscribeCalls ==
    {[topicPattern |-> <<"a", "*">>, T |-> "TradeEvent", priority |-> 0],
     [topicPattern |-> <<"a", "*">>, T |-> "TradeEvent", priority |-> 1],
     [topicPattern |-> <<"a", "*">>, T |-> "VoidMessage", priority |-> 0],
     [topicPattern |-> <<"b">>, T |-> "TradeEvent", priority |-> 0]}

(***************************************************************************)
(* Responses.  TypedResponse<T>(data) is valid, TypedResponse<T>() is not; *)
(* TypedResponse<void>(valid) takes its validity from the argument, whose  *)
(* default is true.                                                        *)
(***************************************************************************)
TypedResponse(valid) == [valid_ |-> valid]

TypedResponseVoidDefault == TRUE

TypedResponseVoid == [valid_ |-> TypedResponseVoidDefault]

isValid(resp) == resp.valid_

\* What the body of a user handler can do when it is called: return a valid
\* response (one with a value, or the void response), return an invalid
\* response, throw an exception derived from std::exception, or throw
\* anything else.
Returned(resp) == [tag |-> "return", resp |-> resp]
Thrown(what) == [tag |-> "throw", what |-> what]

BodyOutcomes ==
    {Returned(TypedResponse(TRUE)), Returned(TypedResponse(FALSE)),
     Thrown("std::exception"), Thrown("other")}

\* dynamic_pointer_cast<TypedMessage<T>>(msg): the message itself when its
\* dynamic type is TypedMessage<T>, a null pointer otherwise.
Null == [null |-> TRUE]

StaticPointerCast(T, msg) == msg

DynamicPointerCast(T, msg) == IF msg.type = T THEN msg ELSE Null

\* The wrappedHandler closure of subscribe<T>: called tells whether the
\* user handler ran, out is what the call produced.
wrappedHandler(T, msg, body) ==
    LET typedMsg == DynamicPointerCast(T, msg)
    IN  IF typedMsg = Null
        THEN [called |-> FALSE, out |-> Returned(TypedResponseVoid)]
        ELSE [called |-> TRUE, out |-> body]

\* catch (std::exception e): the handler of the try blocks of post and
\* dispatchLoop catches the exceptions derived from std::exception.
Caught(out) == out.tag = "throw" /\ out.what = "std::exception"

(***************************************************************************)
(* Subscription::operator< and std::stable_sort: each element is placed    *)
(* before the first element of the sorted prefix that it is less than.     *)
(***************************************************************************)
SubscriptionLessOrEqual(a, b) == a.priority <= b.priority

SubscriptionLess(a, b) == a.priority < b.priority

RECURSIVE InsertSorted(_, _)
InsertSorted(sorted, x) ==
    IF sorted = <<>> THEN <<x>>
    ELSE IF SubscriptionLess(x, Head(sorted)) THEN <<x>> \o sorted
    ELSE <<Head(sorted)>> \o InsertSorted(Tail(sorted), x)

Unsorted(seq) == seq

RECURSIVE StableSort(_)
StableSort(seq) ==
    IF seq = <<>> THEN <<>>
    ELSE InsertSorted(StableSort(SubSeq(seq, 1, Len(seq) - 1)), seq[Len(seq)])

\* std::remove_if with erase: the elements that do not satisfy the
\* predicate, in their order.
RemoveIdKeepsAll(seq, id) == seq

RemoveIdAndLater(seq, id) == SelectSeq(seq, LAMBDA sub : sub.id < id)

RemoveId(seq, id) == SelectSeq(seq, LAMBDA sub : sub.id # id)

NotFiltered(seq, topic) == seq

\* The loop of post and of dispatchLoop that copies the matching
\* subscriptions, in the order of subscriptions_.
Matching(seq, topic) ==
    SelectSeq(seq, LAMBDA sub : isTopicMatch(sub.topicPattern, topic))

(***************************************************************************)
(* The state.  The members of EventBus keep their names.  worker is the    *)
(* position of the thread running dispatchLoop, with its locals event and  *)
(* handlers; th is the position of each caller thread inside the operation *)
(* it has called, with the locals of that call; terminated tells that the  *)
(* process has ended in std::terminate or has crashed.                     *)
(*                                                                         *)
(* History: unsubscribed is the set of identifiers that subscribe returned *)
(* and for which unsubscribe has returned since; the fields gone, base and *)
(* registry of a dispatch are its value and those of handlerIdCounter_ and *)
(* subscriptions_ when the snapshot was taken; the field log of a dispatch *)
(* lists the handler calls made so far; asyncSent counts the messages      *)
(* pushed by postAsync per topic and type.  Where deliveries are counted,  *)
(* firstAsyncId is handlerIdCounter_ at the first push and received        *)
(* counts, per identifier, the calls of the user handler made by the       *)
(* worker.  workersCreated counts, up to MaxStarts, the worker threads     *)
(* that start() has created.                                               *)
(***************************************************************************)
VARIABLES subscriptions_, handlerIdCounter_, messageQueue_, running_,
          subscriptionMutex_, queueMutex_, dispatchThread_, worker, th,
          terminated, unsubscribed, asyncSent, firstAsyncId, received,
          workersCreated, mPattern, mTopic, mRet

registryVars ==
    <<subscriptions_, handlerIdCounter_, unsubscribed, subscriptionMutex_>>
queueVars == <<messageQueue_, asyncSent, firstAsyncId>>
threadVars == <<running_, dispatchThread_, workersCreated>>
matchVars == <<mPattern, mTopic, mRet>>

busVars == <<registryVars, queueVars, threadVars, queueMutex_, worker, th,
             terminated, received>>

vars == <<busVars, matchVars>>

Idle == [pc |-> "idle"]

\* The worker: no thread ("off"), or the thread at a place of dispatchLoop.
WorkerAt(pc) == [pc |-> pc]

\* EventBus::EventBus(): running_(false), handlerIdCounter_(0); the
\* containers are empty and dispatchThread_ holds no thread.
BusInit ==
    /\ subscriptions_ = <<>>
    /\ handlerIdCounter_ = 0
    /\ messageQueue_ = <<>>
    /\ running_ = FALSE
    /\ subscriptionMutex_ = "free"
    /\ queueMutex_ = "free"
    /\ dispatchThread_ = "none"
    /\ worker = WorkerAt("off")
    /\ th = [t \in Threads |-> Idle]
    /\ terminated = FALSE
    /\ unsubscribed = {}
    /\ asyncSent = [k \in Topics \X MsgTypes |-> 0]
    /\ firstAsyncId = 0
    /\ received = [i \in 1..MaxSubs |-> 0]
    /\ workersCreated = 0

Init ==
    /\ BusInit
    /\ mPattern = <<>>
    /\ mTopic = <<>>
    /\ mRet = "none"

CanCall(t) == ~terminated /\ th[t] = Idle

HeldOn(holder) == holder

\* std::lock_guard<std::mutex> lock(subscriptionMutex_) at the head of the
\* block that copies the matching subscriptions: the mutex is taken by
\* holder when it is free, and it is free again where the block ends,
\* before the loop over the handlers.
LockGuardScope(holder) == "free"

(***************************************************************************)
(* subscribe<T>(topicPattern, handler, priority), the whole call under     *)
(* subscriptionMutex_, which it takes free and leaves free.  The field     *)
(* handler of a subscription is the type T that its wrappedHandler casts   *)
(* to.                                                                     *)
(***************************************************************************)
IncrementStuck(counter) == IF counter = 0 THEN 1 ELSE counter

\* ++handlerIdCounter_ on the atomic counter: the incremented value
PreIncrement(counter) == counter + 1

subscribe(t, topicPattern, T, priority) ==
    /\ CanCall(t)
    /\ handlerIdCounter_ < MaxSubs
    /\ subscriptionMutex_ = "free"
    /\ LET id == PreIncrement(handlerIdCounter_)
           pushed == Append(subscriptions_,
                            [id |-> id, topicPattern |-> topicPattern,
                             handler |-> T, priority |-> priority])
       IN  /\ handlerIdCounter_' = id
           /\ subscriptions_' = StableSort(pushed)
    /\ UNCHANGED <<unsubscribed, subscriptionMutex_, queueVars, threadVars,
                   queueMutex_, worker, th, terminated, received, matchVars>>

(***************************************************************************)
(* unsubscribe(id), the whole call under subscriptionMutex_.  A caller     *)
(* passes any identifier; the history unsubscribed records it when         *)
(* subscribe has returned it.                                              *)
(***************************************************************************)
unsubscribe(t, id) ==
    /\ CanCall(t)
    /\ subscriptionMutex_ = "free"
    /\ subscriptions_' = RemoveId(subscriptions_, id)
    /\ unsubscribed' = unsubscribed \cup ({id} \cap (1..handlerIdCounter_))
    /\ UNCHANGED <<handlerIdCounter_, subscriptionMutex_, queueVars,
                   threadVars, queueMutex_, worker, th, terminated, received,
                   matchVars>>

(***************************************************************************)
(* post<T>(topic, message).  post_call makes the message; post_snapshot is *)
(* the block under subscriptionMutex_ that copies the matching             *)
(* subscriptions; post_invoke is one iteration of the loop over handlers;  *)
(* post_return returns results; post_unwind is an exception leaving post.  *)
(***************************************************************************)
post_call(t, topic, T) ==
    /\ CanCall(t)
    /\ th' = [th EXCEPT ![t] =
                [pc |-> "post_lock", topic |-> topic, msg |-> [type |-> T]]]
    /\ UNCHANGED <<registryVars, queueVars, threadVars, queueMutex_, worker,
                   terminated, received, matchVars>>

post_snapshot(t) ==
    /\ ~terminated
    /\ th[t].pc = "post_lock"
    /\ subscriptionMutex_ = "free"
    /\ subscriptionMutex_' = LockGuardScope(t)
    /\ LET handlers == Matching(subscriptions_, th[t].topic)
       IN  th' = [th EXCEPT ![t] =
                    [pc |-> IF handlers = <<>> THEN "post_return"
                            ELSE "post_invoke",
                     topic |-> th[t].topic, msg |-> th[t].msg,
                     gone |-> unsubscribed, base |-> handlerIdCounter_,
                     registry |-> subscriptions_, handlers |-> handlers,
                     idx |-> 1, results |-> <<>>, log |-> <<>>]]
    /\ UNCHANGED <<subscriptions_, handlerIdCounter_, unsubscribed, queueVars,
                   threadVars, queueMutex_, worker, terminated, received,
                   matchVars>>

\* One entry of a dispatch's log: the subscription whose wrappedHandler was
\* invoked, whether the user handler was called, and whether the invocation
\* returned a capsule whose isValid() is true.
LogEntry(sub, r) ==
    [id |-> sub.id, priority |-> sub.priority, T |-> sub.handler,
     called |-> r.called,
     valid |-> r.out.tag = "return" /\ isValid(r.out.resp)]

PushIfReturned(results, sub, out) ==
    IF out.tag = "return"
    THEN Append(results, [by |-> sub.id, resp |-> out.resp])
    ELSE results

\* results after one iteration of post's loop: a returned response is
\* pushed when it is valid (by records the subscription it came from).
PushIfValid(results, sub, out) ==
    IF out.tag = "return" /\ isValid(out.resp)
    THEN Append(results, [by |-> sub.id, resp |-> out.resp])
    ELSE results

\* Where post's loop goes after one handler call: an exception that the
\* catch clause does not catch leaves the loop and the function.
PostAfter(out, last) ==
    IF out.tag = "throw" /\ ~Caught(out) THEN "post_unwind"
    ELSE IF last THEN "post_return"
    ELSE "post_invoke"

post_invoke(t) ==
    /\ ~terminated
    /\ th[t].pc = "post_invoke"
    /\ \E body \in BodyOutcomes :
         LET c == th[t]
             sub == c.handlers[c.idx]
             r == wrappedHandler(sub.handler, c.msg, body)
         IN  th' = [th EXCEPT ![t] =
                      [c EXCEPT
                         !.pc = PostAfter(r.out, c.idx = Len(c.handlers)),
                         !.idx = c.idx + 1,
                         !.results = PushIfValid(c.results, sub, r.out),
                         !.log = Append(c.log, LogEntry(sub, r))]]
    /\ UNCHANGED <<registryVars, queueVars, threadVars, queueMutex_, worker,
                   terminated, received, matchVars>>

post_return(t) ==
    /\ ~terminated
    /\ th[t].pc = "post_return"
    /\ th' = [th EXCEPT ![t] = Idle]
    /\ UNCHANGED <<registryVars, queueVars, threadVars, queueMutex_, worker,
                   terminated, received, matchVars>>

post_unwind(t) ==
    /\ ~terminated
    /\ th[t].pc = "post_unwind"
    /\ th' = [th EXCEPT ![t] = Idle]
    /\ UNCHANGED <<registryVars, queueVars, threadVars, queueMutex_, worker,
                   terminated, received, matchVars>>

(***************************************************************************)
(* postAsync<T>(topic, message).  postAsync_push is the block under        *)
(* queueMutex_; postAsync_notify is cv_.notify_one(), which wakes the      *)
(* worker when it is blocked in cv_.wait and is lost otherwise.  budget    *)
(* bounds the messages pushed; counted tells whether deliveries are        *)
(* counted.                                                                *)
(***************************************************************************)
RECURSIVE SumOver(_, _)
SumOver(f, S) ==
    IF S = {} THEN 0
    ELSE LET k == CHOOSE x \in S : TRUE IN f[k] + SumOver(f, S \ {k})

AsyncTotal == SumOver(asyncSent, Topics \X MsgTypes)

Notified(w) == IF w.pc = "waiting" THEN WorkerAt("woken") ELSE w

PushedFront(queue, event) == <<event>> \o queue

PushedWhenRunning(queue, event) ==
    IF running_ THEN Append(queue, event) ELSE queue

\* messageQueue_.push(event)
Pushed(queue, event) == Append(queue, event)

postAsync_push(t, topic, T, budget, counted) ==
    /\ CanCall(t)
    /\ AsyncTotal < budget
    /\ queueMutex_ = "free"
    /\ messageQueue_' = Pushed(messageQueue_,
                               [topic |-> topic, message |-> [type |-> T],
                                seq |-> AsyncTotal + 1,
                                running |-> running_])
    /\ asyncSent' = [asyncSent EXCEPT ![<<topic, T>>] = @ + 1]
    /\ firstAsyncId' = IF counted /\ AsyncTotal = 0 THEN handlerIdCounter_
                       ELSE firstAsyncId
    /\ th' = [th EXCEPT ![t] = [pc |-> "async_notify"]]
    /\ UNCHANGED <<registryVars, threadVars, queueMutex_, worker, terminated,
                   received, matchVars>>

postAsync_notify(t) ==
    /\ ~terminated
    /\ th[t].pc = "async_notify"
    /\ worker' = Notified(worker)
    /\ th' = [th EXCEPT ![t] = Idle]
    /\ UNCHANGED <<registryVars, queueVars, threadVars, queueMutex_,
                   terminated, received, matchVars>>

(***************************************************************************)
(* start() and stop().  start_exchange and stop_exchange are the atomic    *)
(* exchanges on running_; start_spawn is the assignment of a new thread to *)
(* dispatchThread_, which calls std::terminate when dispatchThread_ still  *)
(* holds a joinable thread; stop_notify is cv_.notify_all(); stop_join is  *)
(* the joinable() test and the join, which waits for dispatchLoop to       *)
(* return.                                                                 *)
(***************************************************************************)
start_anyway(t) ==
    /\ CanCall(t)
    /\ running_' = TRUE
    /\ th' = [th EXCEPT ![t] = [pc |-> "start_spawn"]]
    /\ UNCHANGED <<registryVars, queueVars, dispatchThread_, workersCreated,
                   queueMutex_, worker, terminated, received, matchVars>>

start_exchange(t) ==
    /\ CanCall(t)
    /\ running_' = TRUE
    /\ th' = [th EXCEPT ![t] = IF running_ THEN Idle
                               ELSE [pc |-> "start_spawn"]]
    /\ UNCHANGED <<registryVars, queueVars, dispatchThread_, workersCreated,
                   queueMutex_, worker, terminated, received, matchVars>>

start_spawn(t) ==
    /\ ~terminated
    /\ th[t].pc = "start_spawn"
    /\ th' = [th EXCEPT ![t] = Idle]
    /\ IF dispatchThread_ = "joinable"
       THEN /\ terminated' = TRUE
            /\ UNCHANGED <<dispatchThread_, worker, workersCreated>>
       ELSE /\ dispatchThread_' = "joinable"
            /\ worker' = WorkerAt("while")
            /\ workersCreated' = Min(workersCreated + 1, MaxStarts)
            /\ UNCHANGED terminated
    /\ UNCHANGED <<registryVars, queueVars, running_, queueMutex_, received,
                   matchVars>>

stop_exchange(t) ==
    /\ CanCall(t)
    /\ running_' = FALSE
    /\ th' = [th EXCEPT ![t] = IF running_ THEN [pc |-> "stop_notify"]
                               ELSE Idle]
    /\ UNCHANGED <<registryVars, queueVars, dispatchThread_, workersCreated,
                   queueMutex_, worker, terminated, received, matchVars>>

stop_notify(t) ==
    /\ ~terminated
    /\ th[t].pc = "stop_notify"
    /\ worker' = Notified(worker)
    /\ th' = [th EXCEPT ![t] = [pc |-> "stop_join"]]
    /\ UNCHANGED <<registryVars, queueVars, threadVars, queueMutex_,
                   terminated, received, matchVars>>

stop_join(t) ==
    /\ ~terminated
    /\ th[t].pc = "stop_join"
    /\ IF dispatchThread_ = "joinable"
       THEN /\ worker.pc = "exited"
            /\ worker' = WorkerAt("off")
            /\ dispatchThread_' = "none"
       ELSE UNCHANGED <<worker, dispatchThread_>>
    /\ th' = [th EXCEPT ![t] = Idle]
    /\ UNCHANGED <<registryVars, queueVars, running_, workersCreated,
                   queueMutex_, terminated, received, matchVars>>

(***************************************************************************)
(* dispatchLoop, the function of the worker thread.                        *)
(*   worker_while     the test of while (running_)                         *)
(*   worker_lock      the lock of queueMutex_ and the first evaluation of  *)
(*                    the predicate of cv_.wait                            *)
(*   worker_wait      cv_.wait releases queueMutex_ and blocks             *)
(*   worker_spurious  a wake-up of cv_.wait that no notify caused          *)
(*   worker_wake      the woken thread takes queueMutex_ again and         *)
(*                    evaluates the predicate again                        *)
(*   worker_take      if (!running_) return; front(), pop(), unlock        *)
(*   worker_snapshot  the block under subscriptionMutex_                   *)
(*   worker_invoke    one iteration of the loop over handlers              *)
(*   worker_next      the end of the body of the while loop                *)
(***************************************************************************)
WaitPredicate == ~running_ \/ messageQueue_ # <<>>

worker_while ==
    /\ ~terminated
    /\ worker.pc = "while"
    /\ worker' = IF running_ THEN WorkerAt("lock") ELSE WorkerAt("exited")
    /\ UNCHANGED <<registryVars, queueVars, threadVars, queueMutex_, th,
                   terminated, received, matchVars>>

worker_lock ==
    /\ ~terminated
    /\ worker.pc = "lock"
    /\ queueMutex_ = "free"
    /\ queueMutex_' = "worker"
    /\ worker' = IF WaitPredicate THEN WorkerAt("locked")
                 ELSE WorkerAt("prewait")
    /\ UNCHANGED <<registryVars, queueVars, threadVars, th, terminated,
                   received, matchVars>>

worker_wait ==
    /\ ~terminated
    /\ worker.pc = "prewait"
    /\ queueMutex_' = "free"
    /\ worker' = WorkerAt("waiting")
    /\ UNCHANGED <<registryVars, queueVars, threadVars, th, terminated,
                   received, matchVars>>

worker_spurious ==
    /\ ~terminated
    /\ worker.pc = "waiting"
    /\ worker' = WorkerAt("woken")
    /\ UNCHANGED <<registryVars, queueVars, threadVars, queueMutex_, th,
                   terminated, received, matchVars>>

worker_wake ==
    /\ ~terminated
    /\ worker.pc = "woken"
    /\ queueMutex_ = "free"
    /\ queueMutex_' = "worker"
    /\ worker' = IF WaitPredicate THEN WorkerAt("locked")
                 ELSE WorkerAt("prewait")
    /\ UNCHANGED <<registryVars, queueVars, threadVars, th, terminated,
                   received, matchVars>>

PoppedAll(queue) == <<>>

\* messageQueue_.pop()
Popped(queue) == Tail(queue)

\* messageQueue_.front() on an empty queue is undefined: the process
\* crashes, or event holds some topic and some message.
Garbage ==
    {[topic |-> topic, message |-> [type |-> T], seq |-> 0,
      running |-> TRUE] : topic \in Topics, T \in MsgTypes}

worker_take ==
    /\ ~terminated
    /\ worker.pc = "locked"
    /\ queueMutex_' = "free"
    /\ IF ~running_
       THEN /\ worker' = WorkerAt("exited")
            /\ UNCHANGED <<messageQueue_, terminated>>
       ELSE IF messageQueue_ # <<>>
       THEN /\ worker' = [pc |-> "snapshot", event |-> Head(messageQueue_)]
            /\ messageQueue_' = Popped(messageQueue_)
            /\ UNCHANGED terminated
       ELSE \E crash \in BOOLEAN, garbage \in Garbage :
              /\ terminated' = crash
              /\ worker' = IF crash THEN WorkerAt("crashed")
                           ELSE [pc |-> "snapshot", event |-> garbage]
              /\ UNCHANGED messageQueue_
    /\ UNCHANGED <<registryVars, asyncSent, firstAsyncId, threadVars, th,
                   received, matchVars>>

worker_snapshot ==
    /\ ~terminated
    /\ worker.pc = "snapshot"
    /\ subscriptionMutex_ = "free"
    /\ subscriptionMutex_' = LockGuardScope("worker")
    /\ LET handlers == Matching(subscriptions_, worker.event.topic)
       IN  worker' = [pc |-> IF handlers = <<>> THEN "dispatched"
                             ELSE "invoke",
                      event |-> worker.event, gone |-> unsubscribed,
                      base |-> handlerIdCounter_,
                      registry |-> subscriptions_, handlers |-> handlers,
                      idx |-> 1, log |-> <<>>]
    /\ UNCHANGED <<subscriptions_, handlerIdCounter_, unsubscribed, queueVars,
                   threadVars, queueMutex_, th, terminated, received,
                   matchVars>>

\* Where the worker goes after one handler call: an exception that the
\* catch clause does not catch leaves the thread function, and the
\* process ends in std::terminate.
WorkerAfter(out, last) ==
    IF out.tag = "throw" /\ ~Caught(out) THEN "crashed"
    ELSE IF last THEN "dispatched"
    ELSE "invoke"

worker_invoke(counted) ==
    /\ ~terminated
    /\ worker.pc = "invoke"
    /\ \E body \in BodyOutcomes :
         LET sub == worker.handlers[worker.idx]
             r == wrappedHandler(sub.handler, worker.event.message, body)
             pc == WorkerAfter(r.out, worker.idx = Len(worker.handlers))
         IN  /\ worker' = [worker EXCEPT
                             !.pc = pc,
                             !.idx = worker.idx + 1,
                             !.log = Append(worker.log, LogEntry(sub, r))]
             /\ terminated' = (pc = "crashed")
             /\ received' = IF counted /\ r.called
                            THEN [received EXCEPT ![sub.id] = @ + 1]
                            ELSE received
    /\ UNCHANGED <<registryVars, queueVars, threadVars, queueMutex_, th,
                   matchVars>>

worker_next ==
    /\ ~terminated
    /\ worker.pc = "dispatched"
    /\ worker' = WorkerAt("while")
    /\ UNCHANGED <<registryVars, queueVars, threadVars, queueMutex_, th,
                   terminated, received, matchVars>>

WorkerStep(counted) ==
    \/ worker_while
    \/ worker_lock
    \/ worker_wait
    \/ worker_wake
    \/ worker_take
    \/ worker_snapshot
    \/ worker_invoke(counted)
    \/ worker_next

(***************************************************************************)
(* The steps that carry on a call that a thread has started.               *)
(***************************************************************************)
ContinuePost(t) ==
    \/ post_snapshot(t)
    \/ post_invoke(t)
    \/ post_return(t)
    \/ post_unwind(t)

ContinueLifecycle(t) ==
    \/ start_spawn(t)
    \/ stop_notify(t)
    \/ stop_join(t)

(***************************************************************************)
(* Spec: the dispatch paths.  One thread publishes with post and           *)
(* postAsync, the other starts the bus, either subscribes and unsubscribes *)
(* between its other calls, in any order and at any time, and the worker   *)
(* runs dispatchLoop.                                                      *)
(***************************************************************************)
Publisher == "t1"
Subscriber == "t2"

Next ==
    \/ \E t \in Threads, c \in SubscribeCalls :
         subscribe(t, c.topicPattern, c.T, c.priority)
    \/ \E t \in Threads, id \in 1..MaxSubs : unsubscribe(t, id)
    \/ \E topic \in Topics, T \in MsgTypes : post_call(Publisher, topic, T)
    \/ \E topic \in Topics, T \in MsgTypes :
         postAsync_push(Publisher, topic, T, SpecAsync, FALSE)
    \/ start_exchange(Subscriber)
    \/ start_spawn(Subscriber)
    \/ ContinuePost(Publisher)
    \/ postAsync_notify(Publisher)
    \/ WorkerStep(FALSE)
    \/ worker_spurious

Spec == Init /\ [][Next]_vars

(***************************************************************************)
(* LifecycleSpec: start and stop.  Both threads start and stop the bus and *)
(* postAsync in any order and at any time, at most LifecycleSubs           *)
(* subscriptions are made, and the deliveries are counted.                 *)
(***************************************************************************)
LifecycleNext ==
    \/ \E t \in Threads, c \in SubscribeCalls :
         /\ handlerIdCounter_ < LifecycleSubs
         /\ subscribe(t, c.topicPattern, c.T, c.priority)
    \/ \E t \in Threads, topic \in Topics, T \in MsgTypes :
         postAsync_push(t, topic, T, MaxAsync, TRUE)
    \/ \E t \in Threads : start_exchange(t)
    \/ \E t \in Threads : stop_exchange(t)
    \/ \E t \in Threads : ContinueLifecycle(t)
    \/ \E t \in Threads : postAsync_notify(t)
    \/ WorkerStep(TRUE)
    \/ worker_spurious

LifecycleSpec == Init /\ [][LifecycleNext]_vars

\* Threads are scheduled fairly: a call that has started goes on, and the
\* worker goes on.  Nothing obliges a caller to make a call, and nothing
\* obliges a condition variable to wake up spuriously.
FairLifecycleSpec ==
    /\ LifecycleSpec
    /\ \A t \in Threads : WF_vars(ContinueLifecycle(t))
    /\ \A t \in Threads : WF_vars(postAsync_notify(t))
    /\ WF_vars(WorkerStep(TRUE))

(***************************************************************************)
(* SequentialSpec: start and stop called sequentially.  One thread makes   *)
(* every call, each after the one before has returned, and the worker runs *)
(* beside it.                                                              *)
(***************************************************************************)
Caller == "t1"

SequentialNext ==
    \/ \E c \in SubscribeCalls :
         /\ handlerIdCounter_ < LifecycleSubs
         /\ subscribe(Caller, c.topicPattern, c.T, c.priority)
    \/ \E topic \in Topics, T \in MsgTypes :
         postAsync_push(Caller, topic, T, MaxAsync, TRUE)
    \/ start_exchange(Caller)
    \/ stop_exchange(Caller)
    \/ ContinueLifecycle(Caller)
    \/ postAsync_notify(Caller)
    \/ WorkerStep(TRUE)
    \/ worker_spurious

SequentialSpec == Init /\ [][SequentialNext]_vars

(***************************************************************************)
(* MatchSpec: isTopicMatch called on every pattern and topic of up to      *)
(* MaxLen characters.                                                      *)
(***************************************************************************)
MatchInit ==
    /\ BusInit
    /\ mPattern \in Strings
    /\ mTopic \in Strings
    /\ mRet = "none"

match_call ==
    /\ mRet = "none"
    /\ mRet' \in isTopicMatchOutcomes(mPattern, mTopic)
    /\ UNCHANGED <<busVars, mPattern, mTopic>>

MatchNext == match_call

MatchSpec == MatchInit /\ [][MatchNext]_vars

(***************************************************************************)
(* The dispatches in progress: the post calls that have taken their        *)
(* snapshot, and the message the worker is dispatching.                    *)
(***************************************************************************)
PostDispatches ==
    {th[t] : t \in {u \in Threads :
                      th[u].pc \in {"post_invoke", "post_return",
                                    "post_unwind"}}}

WorkerDispatches == IF "log" \in DOMAIN worker THEN {worker} ELSE {}

Dispatches == PostDispatches \cup WorkerDispatches

Finished(c) == c.pc \in {"post_return", "dispatched"}

Ids(seq) == {seq[i].id : i \in DOMAIN seq}

\* a sequence of entries with priority and id is in priority order, ties
\* in the order of registration
InOrder(seq) ==
    \A i, j \in DOMAIN seq :
        i < j => \/ seq[i].priority < seq[j].priority
                 \/ /\ seq[i].priority = seq[j].priority
                    /\ seq[i].id < seq[j].id

\* the results of a post, each with the priority of the subscription that
\* it came from
ResultOrder(c) ==
    [i \in DOMAIN c.results |->
        LET h == CHOOSE h \in DOMAIN c.handlers :
                     c.handlers[h].id = c.results[i].by
        IN  [id |-> c.results[i].by, priority |-> c.handlers[h].priority]]

\* C1: within one post call and within one message processed by the worker,
\* the handlers are invoked in non-decreasing priority, those of equal
\* priority in the order of their subscribe calls, and the list that post
\* returns follows the same order, whatever subscribe and unsubscribe calls
\* came before.
C1_PriorityOrder ==
    /\ \A c \in Dispatches : InOrder(c.log)
    /\ \A c \in PostDispatches : InOrder(ResultOrder(c))

\* a post that has called three handlers, two of them of equal priority
\* and the third registered before the second, with two results; and a
\* worker dispatch, after an unsubscribe, that has called two handlers not
\* in the order of their registration
C1_Witness ==
    /\ \E c \in PostDispatches :
         /\ c.pc = "post_return"
         /\ Len(c.log) = 3
         /\ Len(c.results) >= 2
         /\ c.log[1].priority = c.log[2].priority
         /\ c.log[3].id < c.log[2].id
    /\ \E c \in WorkerDispatches :
         /\ c.pc = "dispatched"
         /\ c.gone # {}
         /\ Len(c.log) = 2
         /\ c.log[1].id > c.log[2].id

(***************************************************************************)
(* The three rules of the topic matcher, as a reference: the pattern "*"   *)
(* matches every topic; a pattern that ends in '*' matches the topics that *)
(* begin with the pattern's other characters; any other pattern matches    *)
(* the topic equal to it.                                                  *)
(***************************************************************************)
RefMatch(pattern, topic) ==
    IF pattern = <<"*">> THEN TRUE
    ELSE IF pattern # <<>> /\ pattern[Len(pattern)] = "*"
            /\ Len(topic) >= Len(pattern) - 1
            /\ \A i \in 1..(Len(pattern) - 1) : topic[i] = pattern[i]
         THEN TRUE
    ELSE pattern = topic

\* the topic of a dispatch and the type of its message
TopicOf(c) == IF "event" \in DOMAIN c THEN c.event.topic ELSE c.topic
TypeOf(c) == IF "event" \in DOMAIN c THEN c.event.message.type ELSE c.msg.type

\* C2: a dispatch whose snapshot is taken after unsubscribe(id) has
\* returned, as is that of every post and postAsync call that starts
\* afterwards, never invokes the handler of id, wherever id stood in the
\* priority order; the subscriptions that were and remain active and match
\* the topic are in the snapshot, and a dispatch that runs to its end has
\* invoked every handler of the snapshot.
C2_UnsubscribedNeverInvoked ==
    \A c \in Dispatches :
        /\ \A i \in DOMAIN c.log : c.log[i].id \notin c.gone
        /\ \A i \in DOMAIN subscriptions_ :
             LET sub == subscriptions_[i]
             IN  sub.id <= c.base /\ RefMatch(sub.topicPattern, TopicOf(c))
                 => sub.id \in Ids(c.handlers)
        /\ Finished(c) => Ids(c.log) = Ids(c.handlers)

\* a post and a worker dispatch that ran to their end after the
\* subscription registered second of three was removed, and that invoked
\* the first and the third
C2_Witness ==
    /\ \E c \in PostDispatches :
         c.pc = "post_return" /\ c.gone = {2} /\ Ids(c.log) = {1, 3}
    /\ \E c \in WorkerDispatches :
         c.pc = "dispatched" /\ c.gone = {2} /\ Ids(c.log) = {1, 3}

\* C4 (as claimed): a subscription whose payload type differs from the type
\* of the published message contributes no entry to the list post returns.
C4_MismatchedNoEntry ==
    \A c \in PostDispatches :
        \A i \in DOMAIN c.results :
            \A h \in DOMAIN c.handlers :
                c.handlers[h].id = c.results[i].by
                => c.handlers[h].handler = c.msg.type

\* C5: the user handler registered by subscribe<T> is called only for
\* messages of type T, in post and in the worker, and the invocation of a
\* handler for another type raises nothing: no exception leaves post and
\* the worker does not die on it.
C5_CalledOnlyForOwnType ==
    \A c \in Dispatches :
        /\ \A i \in DOMAIN c.log : c.log[i].called <=> c.log[i].T = TypeOf(c)
        /\ c.pc \in {"post_unwind", "crashed"} => c.log[Len(c.log)].called

\* a post and a worker dispatch that ran to their end and invoked a handler
\* of another type, without calling it, and a handler of the message's type
C5_Witness ==
    /\ \E c \in PostDispatches :
         /\ c.pc = "post_return"
         /\ \E i, j \in DOMAIN c.log : ~c.log[i].called /\ c.log[j].called
    /\ \E c \in WorkerDispatches :
         /\ c.pc = "dispatched"
         /\ \E i, j \in DOMAIN c.log : ~c.log[i].called /\ c.log[j].called

\* C6 (as claimed): a failure raised by a handler that post invokes is
\* caught inside post and does not reach the publisher.
C6_FaultStaysInPost ==
    \A c \in PostDispatches : c.pc # "post_unwind"

\* C7 (as claimed): a failure raised by a handler that the worker invokes
\* leaves the worker thread alive.
C7_WorkerSurvivesFault ==
    \A c \in WorkerDispatches : c.pc # "crashed"

(***************************************************************************)
(* The asynchronous path from enqueue to delivery.                         *)
(***************************************************************************)
Stopped == worker.pc = "off" /\ ~running_ /\ ~terminated

Drained == messageQueue_ = <<>>

\* the messages pushed so far that a subscription is to receive
ExpectedFor(sub) ==
    LET mine == {k \in Topics \X MsgTypes :
                    RefMatch(sub.topicPattern, k[1]) /\ sub.handler = k[2]}
    IN  SumOver(asyncSent, mine)

\* C3: once the queue has drained and the bus is stopped, a handler that
\* was subscribed before the first postAsync and still is has been called
\* by the worker once for every message pushed, by whichever threads, for
\* its topic and type: no message is lost and none is delivered twice; and
\* no subscription has been called more often than that.
C3_EveryMessageDeliveredOnce ==
    Stopped /\ Drained =>
        \A i \in DOMAIN subscriptions_ :
            LET sub == subscriptions_[i]
            IN  /\ received[sub.id] <= ExpectedFor(sub)
                /\ sub.id <= firstAsyncId
                   => received[sub.id] = ExpectedFor(sub)

\* the bus stopped and the queue drained after MaxAsync messages were
\* pushed to a subscribed handler, all of them delivered
C3_Witness ==
    /\ Stopped
    /\ Drained
    /\ AsyncTotal = MaxAsync
    /\ \E i \in DOMAIN subscriptions_ :
         /\ subscriptions_[i].id <= firstAsyncId
         /\ received[subscriptions_[i].id] = MaxAsync

\* C8 (as claimed): every call to stop() on a running bus returns.
C8_StopReturns ==
    \A t \in Threads :
        (th[t].pc = "stop_notify") ~> (th[t] = Idle \/ terminated)

\* C9 (as claimed): the worker leaves its loop only when the queue is
\* empty.
C9_ExitsOnlyWhenDrained ==
    [][worker.pc # "exited" /\ worker'.pc = "exited" => messageQueue_' = <<>>]_vars

\* C10: for every non-empty pattern and every topic, isTopicMatch returns
\* what the three rules of the reference give.
C10_MatchesReference ==
    mRet # "none" /\ mPattern # <<>> =>
        (mRet = "true" <=> RefMatch(mPattern, mTopic))

\* a pattern with a two-character prefix called on a topic that is the
\* first character of the prefix, and not matched
C10_Witness ==
    /\ mPattern = <<"a", "b", "*">>
    /\ mTopic = <<"a">>
    /\ mRet = "false"

(***************************************************************************)
(* The registry.                                                           *)
(***************************************************************************)
\* seq without its k-th element
Without(seq, k) == SubSeq(seq, 1, k - 1) \o SubSeq(seq, k + 1, Len(seq))

DistinctIds(seq) ==
    \A i, j \in DOMAIN seq : i # j => seq[i].id # seq[j].id

\* C11: every subscribe call, by whichever thread, registers one
\* subscription whose identifier is greater than 0 and greater than every
\* identifier registered before, live or removed by unsubscribe, so that
\* the identifiers of the live subscriptions are pairwise distinct and an
\* identifier is never given again.
C11_IdentifiersUnique ==
    [][Len(subscriptions_') > Len(subscriptions_) =>
         /\ \E k \in DOMAIN subscriptions_' :
              /\ Without(subscriptions_', k) = subscriptions_
              /\ subscriptions_'[k].id > 0
              /\ \A id \in Ids(subscriptions_) \cup unsubscribed :
                   subscriptions_'[k].id > id
         /\ DistinctIds(subscriptions_')]_vars

\* three subscriptions were registered, the second was removed before the
\* third was registered, and the first and the third are live
C11_Witness ==
    /\ handlerIdCounter_ = 3
    /\ Ids(subscriptions_) = {1, 3}
    /\ \E c \in PostDispatches : c.base = 1 /\ c.gone = {}
    /\ \E c \in WorkerDispatches : c.base = 2 /\ c.gone = {2}

\* C12: after any sequence of subscribe and unsubscribe calls the
\* subscription collection is in non-decreasing priority, and subscriptions
\* of equal priority are in increasing order of their identifiers.
C12_RegistrySorted == InOrder(subscriptions_)

\* three live subscriptions, the one registered first behind two of a
\* smaller priority value that are equal in priority
C12_Witness ==
    /\ Len(subscriptions_) = 3
    /\ [i \in 1..3 |-> subscriptions_[i].id] = <<2, 3, 1>>
    /\ subscriptions_[1].priority = subscriptions_[2].priority

\* the identifiers of the entries of a log whose invocation returned a
\* valid capsule, in the order of the log
ValidIds(log) ==
    LET valid == SelectSeq(log, LAMBDA e : e.valid)
    IN  [i \in DOMAIN valid |-> valid[i].id]

\* C13: the list that post returns has exactly one entry for each handler
\* of the snapshot whose invocation returned a capsule with isValid() true,
\* in the order of the invocations, and none for a handler that returned a
\* capsule with isValid() false: no invalid capsule is in a post result.
C13_OnlyValidResults ==
    \A c \in PostDispatches :
        /\ \A i \in DOMAIN c.results : isValid(c.results[i].resp)
        /\ [i \in DOMAIN c.results |-> c.results[i].by] = ValidIds(c.log)
        /\ c.pc = "post_return" => Len(c.log) = Len(c.handlers)

\* a post about to return after its three handlers were called for their
\* own type, with one entry for the one that returned a valid capsule and
\* none for one that returned an invalid capsule
C13_Witness ==
    \E c \in PostDispatches :
        /\ c.pc = "post_return"
        /\ Len(c.log) = 3
        /\ \A i \in DOMAIN c.log : c.log[i].called
        /\ c.log[1].valid /\ ~c.log[2].valid /\ ~c.log[3].valid
        /\ Len(c.results) = 1

(***************************************************************************)
(* The worker thread and its handle.                                       *)
(***************************************************************************)
WorkerLive == worker.pc \notin {"off", "exited", "crashed"}

\* C14: with start() and stop() called sequentially, a start() on a running
\* bus goes no further than its test and creates no worker, a stop() on a
\* bus that is not running goes no further than its test and so neither
\* notifies nor joins, a start() that creates a worker finds no worker
\* thread left and creates one, and whenever the bus is running and no call
\* is in progress there is one live worker, after a start(), stop(),
\* start() sequence too.
C14_StartStopIdempotent ==
    [][/\ \A t \in Threads :
            /\ th[t] = Idle /\ th'[t].pc = "start_spawn" => ~running_
            /\ th[t] = Idle /\ th'[t].pc = "stop_notify" => running_
            /\ th[t].pc = "start_spawn" /\ th'[t] = Idle
               => /\ worker.pc = "off" /\ dispatchThread_ = "none"
                  /\ worker'.pc = "while" /\ dispatchThread_' = "joinable"
                  /\ ~terminated'
       /\ running_ /\ ~terminated /\ (\A t \in Threads : th[t] = Idle)
          => WorkerLive /\ dispatchThread_ = "joinable"]_vars

\* the bus running with its second worker, no call in progress: start(),
\* stop() and start() have returned
C14_Witness ==
    /\ workersCreated = 2
    /\ running_
    /\ ~terminated
    /\ th[Caller] = Idle
    /\ WorkerLive

(***************************************************************************)
(* The queue.  The field seq of a message is its rank among the enqueue    *)
(* operations, in the order they held queueMutex_, and the field running   *)
(* is the value of running_ when it was pushed; the event that front()     *)
(* produces on an empty queue has rank 0 and is no enqueued message.       *)
(***************************************************************************)
\* C15: the worker dispatches the queued messages in the order of their
\* enqueue operations: the queue holds the messages in the order they were
\* pushed, and every message still queued while the worker dispatches a
\* message was pushed after that message, so that every handler call for a
\* message comes before any handler call for one pushed later.
C15_FifoDispatch ==
    /\ \A i, j \in DOMAIN messageQueue_ :
         i < j => messageQueue_[i].seq < messageQueue_[j].seq
    /\ "event" \in DOMAIN worker /\ worker.event.seq > 0
       => \A i \in DOMAIN messageQueue_ :
            messageQueue_[i].seq > worker.event.seq

\* the worker has dispatched the second message pushed, to a handler that
\* it had called for the first message before
C15_Witness ==
    /\ "log" \in DOMAIN worker
    /\ worker.event.seq = 2
    /\ worker.pc = "dispatched"
    /\ \E i \in DOMAIN worker.log :
         worker.log[i].called /\ received[worker.log[i].id] = 2

(***************************************************************************)
(* The locks.                                                              *)
(***************************************************************************)
\* C16: no handler is invoked while the invoking thread holds
\* subscriptionMutex_ or queueMutex_, in post and in the worker: between
\* the snapshot of a dispatch and its last handler call the invoking thread
\* holds neither, so that a subscribe, unsubscribe, post or postAsync made
\* meanwhile, by a handler or by another thread, finds no lock held by the
\* dispatch.
C16_NoHandlerUnderLock ==
    /\ \A t \in Threads :
         th[t].pc = "post_invoke"
         => subscriptionMutex_ # t /\ queueMutex_ # t
    /\ worker.pc = "invoke"
       => subscriptionMutex_ # "worker" /\ queueMutex_ # "worker"

\* a post and a worker dispatch both between two handler calls, after a
\* subscribe and an unsubscribe that took effect once both snapshots were
\* taken
C16_Witness ==
    /\ \E c \in PostDispatches :
         /\ c.pc = "post_invoke" /\ c.idx = 2
         /\ handlerIdCounter_ > c.base /\ unsubscribed # c.gone
    /\ \E c \in WorkerDispatches :
         /\ c.pc = "invoke" /\ c.idx = 2
         /\ handlerIdCounter_ > c.base /\ unsubscribed # c.gone

\* C17: an unsubscribe(id) that changes anything removes the subscriptions
\* whose identifier is id and nothing else: every other subscription stays,
\* in the same relative order, and the identifier counter, the message
\* queue, the threads and the worker are as before; no other step shrinks
\* the collection, so that an unsubscribe of an identifier that is absent
\* or already removed changes nothing and raises nothing.
C17_UnsubscribeFrame ==
    [][\/ unsubscribed' # unsubscribed
       \/ subscriptions_' # subscriptions_
          /\ Len(subscriptions_') <= Len(subscriptions_)
       => \E id \in unsubscribed' \ unsubscribed :
            /\ id \in Ids(subscriptions_)
            /\ Ids(subscriptions_') = Ids(subscriptions_) \ {id}
            /\ \E k \in DOMAIN subscriptions_ :
                 subscriptions_' = Without(subscriptions_, k)
            /\ handlerIdCounter_' = handlerIdCounter_
            /\ messageQueue_' = messageQueue_
            /\ th' = th /\ worker' = worker /\ terminated' = terminated]_vars

\* the second of three subscriptions was removed while a message was
\* queued: the first and the third are live, in their order, and the
\* message is queued
C17_Witness ==
    /\ handlerIdCounter_ = 3
    /\ unsubscribed = {2}
    /\ Len(subscriptions_) = 2
    /\ subscriptions_[1].id = 1 /\ subscriptions_[2].id = 3
    /\ messageQueue_ # <<>>

(***************************************************************************)
(* The snapshot.  The field registry of a dispatch is the subscription     *)
(* collection at the instant its snapshot was taken.                       *)
(***************************************************************************)
MatchedAtSnapshot(c) ==
    {c.registry[i].id : i \in {j \in DOMAIN c.registry :
        RefMatch(c.registry[j].topicPattern, TopicOf(c))}}

\* C18: a post or a worker dispatch invokes handlers of the subscriptions
\* that matched the topic at the instant of its snapshot and of no other,
\* each once, and when it has run to its end it has invoked them all: one
\* removed by unsubscribe after the snapshot is still invoked, and one added
\* after the snapshot is not.
C18_SnapshotSemantics ==
    \A c \in Dispatches :
        /\ Ids(c.log) \subseteq MatchedAtSnapshot(c)
        /\ Cardinality(Ids(c.log)) = Len(c.log)
        /\ Finished(c) => Ids(c.log) = MatchedAtSnapshot(c)

\* a post and a worker dispatch that ran to their end and invoked a
\* subscription removed after their snapshot, and did not invoke a live
\* matching subscription added after it
C18_Witness ==
    \A c \in {th[Publisher], worker} :
        /\ c \in Dispatches
        /\ Finished(c)
        /\ \E id \in Ids(c.log) : id \in unsubscribed \ c.gone
        /\ \E i \in DOMAIN subscriptions_ :
             /\ subscriptions_[i].id > c.base
             /\ RefMatch(subscriptions_[i].topicPattern, TopicOf(c))
             /\ subscriptions_[i].id \notin Ids(c.log)

\* C19 (as claimed): isTopicMatch on the empty pattern has a defined result
\* for every topic, true exactly when the topic is empty.
C19_EmptyPatternDefined ==
    mRet # "none" /\ mPattern = <<>> =>
        mRet = (IF mTopic = <<>> THEN "true" ELSE "false")

\* C20 (as claimed): under every interleaving of start() and stop() calls
\* from different threads, a start() that creates a worker finds no worker
\* thread that is not joined yet: dispatchThread_ is never assigned while
\* it is joinable.
C20_HandleNeverOverwritten ==
    [][\A t \in Threads :
         th[t].pc = "start_spawn" /\ th'[t] = Idle
         => dispatchThread_ # "joinable"]_vars

\* C21: postAsync drops no message because the bus is not running: every
\* postAsync call, whatever running_ is, puts its message at the back of
\* the queue, and the queue changes in no other way than by the worker of a
\* running bus taking the message at the front to dispatch it; so a message
\* pushed before the first start(), after a stop(), or left when the worker
\* exited keeps its place until a worker started later takes it.
C21_NeverDropped ==
    [][/\ asyncSent' # asyncSent
          => \E topic \in Topics, T \in MsgTypes :
               messageQueue_' =
                   Append(messageQueue_,
                          [topic |-> topic, message |-> [type |-> T],
                           seq |-> AsyncTotal + 1, running |-> running_])
       /\ asyncSent' = asyncSent /\ messageQueue_' # messageQueue_
          => /\ messageQueue_ # <<>>
             /\ messageQueue_' = Tail(messageQueue_)
             /\ running_
             /\ worker'.pc = "snapshot"
             /\ worker'.event = Head(messageQueue_)]_vars

\* the second worker has dispatched, to a handler that had received the
\* first message, the second message, which was pushed while the bus was
\* not running
C21_Witness ==
    /\ workersCreated = 2
    /\ "log" \in DOMAIN worker
    /\ worker.pc = "dispatched"
    /\ worker.event.seq = 2
    /\ ~worker.event.running
    /\ \E i \in DOMAIN worker.log :
         worker.log[i].called /\ received[worker.log[i].id] = 2

====
